---- MODULE Spec2Model ----
(***************************************************************************)
(* Reminder dispatch subsystem of the todo backend: the relational store   *)
(* (users, tasks, reminders), the API handlers that write reminders, and   *)
(* the periodic scanner check_reminders with its channel senders.          *)
(*                                                                         *)
(* Time is counted in whole minutes.  API handlers run one request per     *)
(* step (each ends in a single commit); check_reminders runs on the        *)
(* scheduler thread and is split at the points where it touches the store: *)
(* the query (scheduler.py 24-28), one loop iteration per reminder         *)
(* (30-32, with the lazy loads of _dispatch 41-42) and the commit (34).    *)
(* API requests and clock ticks interleave with those steps.               *)
(* The ORM session of the scanner is private to one invocation: the        *)
(* is_sent assignments of line 32 stay in the session until the commit     *)
(* flushes them as UPDATE ... SET is_sent WHERE id, and are discarded when *)
(* the invocation raises.  No primary key is handed out again while a row  *)
(* loaded under it may still be in a session.                              *)
(*                                                                         *)
(* Beside Spec (the reminder subsystem) the module holds five smaller      *)
(* specifications over the same variables: SpecFields (task and note       *)
(* payloads of create/update), SpecApi (two users calling every task,      *)
(* reminder and note handler), SpecDriver (the APScheduler interval job    *)
(* that runs check_reminders on a pool thread), SpecPaginate (the          *)
(* pagination helper) and SpecChurn (check_reminders run again and again,  *)
(* with weak fairness, under an endless stream of inserts and deletes).    *)
(* Task description, due_date and priority and note title and task_id are  *)
(* not modelled.                                                           *)
(***************************************************************************)
EXTENDS Integers, Sequences, FiniteSets, TLC

\* ---- bounds of the model ------------------------------------------------
MaxUsers == 1
MaxTasks == 2
MaxReminders == 2
MaxTime == 1
MaxSnoozes == 1
MaxNotes == 2
MaxTenants == 2
MaxApiReminders == 1
MaxWorkers == 2
MaxMissed == 1

\* ---- program constants --------------------------------------------------
VALID_CHANNELS == {"push", "email", "sms"}
DefaultSnoozeMinutes == 10
VALID_STATUSES == {"pending", "completed", "archived"}
VALID_RECURRENCE == {"daily", "weekly", "monthly"}
VALID_COLORS == {"yellow", "blue", "green", "pink", "white"}
\* max_instances of a job added without it (scheduler.py 8-14)
MaxInstances == 1
\* Python's None / JSON null in a string column
None == "none"

\* values a request may carry; an optional field is <<>> (absent or unparsable)
\* or <<v>>
Absent == <<>>
ChannelInputs == VALID_CHANNELS \cup {"fax"}
TriggerInputs == {<<t>> : t \in 0..MaxTime} \cup {Absent}
MinuteInputs == {<<-1>>, <<1>>, Absent}

\* text values are sequences of characters
Texts == {<<>>, <<" ">>, <<"a">>, <<" ", "a", " ">>}
TextInputs == {<<s>> : s \in Texts} \cup {Absent}
FlagInputs == {<<TRUE>>, <<FALSE>>, Absent}
StatusInputs == {<<"completed">>, <<"done">>, Absent}
RecurrenceInputs == {<<"daily">>, <<"yearly">>, <<None>>, Absent}
ColorInputs == {<<"blue">>, <<"red">>, Absent}

\* JSON bodies of POST/PUT /api/tasks and /api/notes
TaskInputs ==
    [title : TextInputs, status : StatusInputs,
     is_recurring : FlagInputs, recurrence_rule : RecurrenceInputs]
NoteInputs ==
    [content : TextInputs, color : ColorInputs, is_pinned : {<<TRUE>>, Absent}]
\* bodies that carry a title or a content only
PlainTaskInputs ==
    {d \in TaskInputs : /\ d.title \in {<<<<"a">>>>, Absent}
                        /\ d.status = Absent
                        /\ d.is_recurring = Absent
                        /\ d.recurrence_rule = Absent}
PlainNoteInputs ==
    {d \in NoteInputs : /\ d.content \in {<<<<"a">>>>, Absent}
                        /\ d.color = Absent
                        /\ d.is_pinned = Absent}

VARIABLES
    users,          \* ids of the rows of table users
    tasks,          \* table tasks: id -> [user_id, title, status, is_recurring,
                    \* recurrence_rule]
    reminders,      \* table reminders: id -> [task_id, trigger_at, channel, is_sent]
    next_task_id,   \* next primary key of tasks
    next_reminder_id, \* next primary key of reminders
    now,            \* wall clock, minutes
    pc,             \* position of check_reminders: "idle" | "loop"
    scan_now,       \* `now` as read by the running invocation (line 24)
    due,            \* the rows loaded by the query of lines 25-28
    idx,            \* position of the for loop of line 30 in due
    attempts,       \* _dispatch calls of the current/last invocation: [id, outcome],
                    \* outcome "ok" | "failed" (what the sender logged) | "raised"
    result,         \* how the last invocation ended: "none" | "running" | "committed" | "raised"
    logged,         \* the count of the log line of line 36 (-1: no line)
    quiet_runs,     \* invocations begun since the last API call or clock tick (capped at 2)
    rearmed,        \* reminders snoozed out of the sent state, until they are marked
                    \* sent again, snoozed again or deleted
    snoozes,        \* successful snooze requests so far (bounded by MaxSnoozes)
    notes,          \* table notes: id -> [user_id, content, color, is_pinned]
    next_note_id,   \* next primary key of notes
    observed,       \* whether this specification records the caller and the HTTP
                    \* status of each request (fixed by the initial state)
    current_user,   \* g.current_user.id of the last request (0: none, or not recorded)
    response,       \* HTTP status of the last response (0: none, or not recorded)
    job_alive,      \* the interval job "reminder_check" is registered with the scheduler
    instances,      \* invocations of the job the scheduler counts as running
    missed,         \* fire times skipped because an invocation was still running (capped)
    workers,        \* pool threads of the scheduler: w -> [pc, due, idx, raised],
                    \* pc "free" | "loop", raised: a run on this thread has failed
    page_args,      \* query string of a list request: [page, per_page], each <<>> or <<n>>
    page_meta       \* pagination metadata of its response: [page, per_page]

vars == <<users, tasks, reminders, next_task_id, next_reminder_id, now,
          pc, scan_now, due, idx, attempts, result, logged, quiet_runs, rearmed,
          snoozes, notes, next_note_id, observed, current_user, response,
          job_alive, instances, missed, workers, page_args, page_meta>>

store == <<users, tasks, reminders, next_task_id, next_reminder_id>>
scanner == <<pc, scan_now, due, idx, attempts, result, logged>>
client == <<current_user, response>>
\* what no request handler touches
backstage == <<observed, job_alive, instances, missed, workers, page_args, page_meta>>
\* what the reminder subsystem never touches
apart == <<notes, next_note_id, backstage>>

\* ---- helpers --------------------------------------------------------------
RECURSIVE SetToSeq(_)
SetToSeq(S) ==
    IF S = {} THEN <<>>
    ELSE LET m == CHOOSE x \in S : \A y \in S : x <= y
         IN <<m>> \o SetToSeq(S \ {m})

Ids(rows) == {rows[i].id : i \in 1..Len(rows)}

\* Reminder.query.filter_by(id=reminder_id, task_id=task_id).first()
ReminderOf(t, r) == r \in DOMAIN reminders /\ reminders[r].task_id = t

\* Note.query.filter_by(id=note_id, user_id=g.current_user.id).first()
OwnedNote(u, n) == n \in DOMAIN notes /\ notes[n].user_id = u

\* data.get(key, default)
Get(field, default) == IF field = Absent THEN default ELSE field[1]

\* str.strip()
RECURSIVE Strip(_)
Strip(s) ==
    IF s = <<>> THEN s
    ELSE IF Head(s) = " " THEN Strip(Tail(s))
    ELSE IF s[Len(s)] = " " THEN Strip(SubSeq(s, 1, Len(s) - 1))
    ELSE s

\* validate_task_payload: the set of fields it reports
validate_task_payload(data) ==
    (IF Strip(Get(data.title, <<>>)) = <<>> THEN {"title"} ELSE {})
    \cup (IF data.status # Absent /\ data.status[1] \notin VALID_STATUSES
            THEN {"status"} ELSE {})
    \cup (IF Get(data.is_recurring, FALSE)
               /\ Get(data.recurrence_rule, None) \notin VALID_RECURRENCE
            THEN {"recurrence_rule"} ELSE {})

Drop(f, S) == [x \in (DOMAIN f) \ S |-> f[x]]
Put(f, k, v) == [x \in (DOMAIN f) \cup {k} |-> IF x = k THEN v ELSE f[x]]

\* what a specification that observes the API records of a value
Seen(v) == IF observed THEN v ELSE 0

\* auth_required: the JWT identity must be a row of users; g.current_user = user
auth_required(u) ==
    /\ u \in users
    /\ current_user' = Seen(u)

\* a request ends with an HTTP status; every request counts as activity
\* between two scans
Api(status) ==
    /\ status \in {200, 201, 400, 404}
    /\ response' = Seen(status)
    /\ quiet_runs' = 0

\* ---- initial state: empty tables, scheduler started, no invocation yet ----
\* db.create_all() on a fresh database: empty tables
EmptyStore ==
    /\ tasks = <<>>
    /\ reminders = <<>>
    /\ next_task_id = 1
    /\ next_reminder_id = 1
    /\ notes = <<>>
    /\ next_note_id = 1
    /\ rearmed = {}
    /\ snoozes = 0

\* no invocation of check_reminders yet
ScannerIdle ==
    /\ pc = "idle"
    /\ scan_now = 0
    /\ due = <<>>
    /\ idx = 1
    /\ attempts = <<>>
    /\ result = "none"
    /\ logged = -1
    /\ quiet_runs = 0

\* start_scheduler: the job is registered, nothing runs in the pool
DriverIdle ==
    /\ job_alive = TRUE
    /\ instances = 0
    /\ missed = 0
    /\ workers = <<>>

\* no request served yet
NoRequest ==
    /\ current_user = 0
    /\ response = 0
    /\ page_args = [page |-> Absent, per_page |-> Absent]
    /\ page_meta = [page |-> 0, per_page |-> 0]

Init ==
    /\ users = {}
    /\ EmptyStore
    /\ now = 0
    /\ ScannerIdle
    /\ DriverIdle
    /\ NoRequest
    /\ observed = FALSE

\* ---- API layer ------------------------------------------------------------
\* POST /api/auth/register (valid, unused email and username)
register ==
    /\ Cardinality(users) < MaxUsers
    /\ users' = users \cup {Cardinality(users) + 1}
    /\ Api(201)
    /\ UNCHANGED current_user
    /\ UNCHANGED <<tasks, reminders, next_task_id, next_reminder_id, now, rearmed, snoozes>>
    /\ UNCHANGED scanner
    /\ UNCHANGED apart

\* POST /api/tasks
create_task(u, data) ==
    /\ auth_required(u)
    /\ IF validate_task_payload(data) # {}
         THEN Api(400) /\ UNCHANGED <<tasks, next_task_id>>
         ELSE /\ next_task_id <= MaxTasks
              /\ tasks' = Put(tasks, next_task_id,
                     [user_id |-> u,
                      title |-> Strip(data.title[1]),
                      status |-> "pending",
                      is_recurring |-> Get(data.is_recurring, FALSE),
                      recurrence_rule |-> Get(data.recurrence_rule, None)])
              /\ next_task_id' = next_task_id + 1
              /\ Api(201)
    /\ UNCHANGED <<users, reminders, next_reminder_id, now, rearmed, snoozes>>
    /\ UNCHANGED scanner
    /\ UNCHANGED apart

\* variant: the task looked up by its id alone
OwnedTask_AnyUser(u, t) == t \in DOMAIN tasks

\* Task.query.filter_by(id=task_id, user_id=g.current_user.id).first()
OwnedTask(u, t) == t \in DOMAIN tasks /\ tasks[t].user_id = u

\* variant: the relationship Task.reminders without its cascade
delete_task_NoCascade(u, t) ==
    /\ auth_required(u)
    /\ IF ~OwnedTask(u, t)
         THEN Api(404) /\ UNCHANGED tasks
         ELSE tasks' = Drop(tasks, {t}) /\ Api(200)
    /\ UNCHANGED <<users, reminders, rearmed, next_task_id, next_reminder_id, now, snoozes>>
    /\ UNCHANGED scanner
    /\ UNCHANGED apart

\* DELETE /api/tasks/<task_id>; Task.reminders cascades "all, delete-orphan"
delete_task(u, t) ==
    /\ auth_required(u)
    /\ IF ~OwnedTask(u, t)
         THEN Api(404) /\ UNCHANGED <<tasks, reminders, rearmed>>
         ELSE LET gone == {r \in DOMAIN reminders : reminders[r].task_id = t}
              IN /\ tasks' = Drop(tasks, {t})
                 /\ reminders' = Drop(reminders, gone)
                 /\ rearmed' = rearmed \ gone
                 /\ Api(200)
    /\ UNCHANGED <<users, next_task_id, next_reminder_id, now, snoozes>>
    /\ UNCHANGED scanner
    /\ UNCHANGED apart

\* POST /api/tasks/<task_id>/reminders
add_reminder(u, t, trigger_at, channel) ==
    /\ auth_required(u)
    /\ IF ~OwnedTask(u, t)
         THEN Api(404) /\ UNCHANGED <<reminders, next_reminder_id>>
         ELSE IF trigger_at = Absent \/ channel \notin VALID_CHANNELS
         THEN Api(400) /\ UNCHANGED <<reminders, next_reminder_id>>
         ELSE /\ next_reminder_id <= MaxReminders
              /\ reminders' = Put(reminders, next_reminder_id,
                     [task_id |-> t, trigger_at |-> trigger_at[1],
                      channel |-> channel, is_sent |-> FALSE])
              /\ next_reminder_id' = next_reminder_id + 1
              /\ Api(201)
    /\ UNCHANGED <<users, tasks, next_task_id, now, rearmed, snoozes>>
    /\ UNCHANGED scanner
    /\ UNCHANGED apart

\* DELETE /api/tasks/<task_id>/reminders/<reminder_id>
delete_reminder(u, t, r) ==
    /\ auth_required(u)
    /\ IF ~OwnedTask(u, t) \/ ~ReminderOf(t, r)
         THEN Api(404) /\ UNCHANGED <<reminders, rearmed>>
         ELSE /\ reminders' = Drop(reminders, {r})
              /\ rearmed' = rearmed \ {r}
              /\ Api(200)
    /\ UNCHANGED <<users, tasks, next_task_id, next_reminder_id, now, snoozes>>
    /\ UNCHANGED scanner
    /\ UNCHANGED apart

\* minutes = data.get("minutes", 10)
Minutes(minutes) == IF minutes = Absent THEN DefaultSnoozeMinutes ELSE minutes[1]

\* variant: the snooze counted from the current time
Snoozed_FromNow(row, n) == [row EXCEPT !.trigger_at = now + n, !.is_sent = FALSE]

\* reminder.trigger_at += timedelta(minutes=int(minutes)); reminder.is_sent = False
Snoozed(row, n) == [row EXCEPT !.trigger_at = @ + n, !.is_sent = FALSE]

\* PATCH /api/tasks/<task_id>/reminders/<reminder_id>/snooze
snooze_reminder(u, t, r, minutes) ==
    /\ auth_required(u)
    /\ IF ~OwnedTask(u, t) \/ ~ReminderOf(t, r)
         THEN Api(404) /\ UNCHANGED <<reminders, rearmed, snoozes>>
         ELSE /\ snoozes < MaxSnoozes
              /\ snoozes' = snoozes + 1
              /\ reminders' = [reminders EXCEPT ![r] = Snoozed(@, Minutes(minutes))]
              /\ rearmed' = IF reminders[r].is_sent
                              THEN rearmed \cup {r} ELSE rearmed \ {r}
              /\ Api(200)
    /\ UNCHANGED <<users, tasks, next_task_id, next_reminder_id, now>>
    /\ UNCHANGED scanner
    /\ UNCHANGED apart

\* GET /api/tasks/<task_id>
get_task(u, t) ==
    /\ auth_required(u)
    /\ IF ~OwnedTask(u, t) THEN Api(404) ELSE Api(200)
    /\ UNCHANGED <<now, rearmed, snoozes>>
    /\ UNCHANGED store
    /\ UNCHANGED scanner
    /\ UNCHANGED apart

\* PUT /api/tasks/<task_id>
update_task(u, t, data) ==
    /\ auth_required(u)
    /\ IF ~OwnedTask(u, t)
         THEN Api(404) /\ UNCHANGED tasks
         ELSE IF validate_task_payload(
                    [data EXCEPT !.title = IF @ = Absent THEN <<tasks[t].title>> ELSE @]) # {}
         THEN Api(400) /\ UNCHANGED tasks
         ELSE /\ tasks' = [tasks EXCEPT ![t] =
                     [user_id |-> @.user_id,
                      title |-> Strip(Get(data.title, @.title)),
                      status |-> Get(data.status, @.status),
                      is_recurring |-> Get(data.is_recurring, @.is_recurring),
                      recurrence_rule |-> Get(data.recurrence_rule, @.recurrence_rule)]]
              /\ Api(200)
    /\ UNCHANGED <<users, reminders, next_task_id, next_reminder_id, now, rearmed, snoozes>>
    /\ UNCHANGED scanner
    /\ UNCHANGED apart

\* PATCH /api/tasks/<task_id>/complete
complete_task(u, t) ==
    /\ auth_required(u)
    /\ IF ~OwnedTask(u, t)
         THEN Api(404) /\ UNCHANGED tasks
         ELSE tasks' = [tasks EXCEPT ![t].status = "completed"] /\ Api(200)
    /\ UNCHANGED <<users, reminders, next_task_id, next_reminder_id, now, rearmed, snoozes>>
    /\ UNCHANGED scanner
    /\ UNCHANGED apart

\* GET /api/tasks/<task_id>/reminders
list_reminders(u, t) ==
    /\ auth_required(u)
    /\ IF ~OwnedTask(u, t) THEN Api(404) ELSE Api(200)
    /\ UNCHANGED <<now, rearmed, snoozes>>
    /\ UNCHANGED store
    /\ UNCHANGED scanner
    /\ UNCHANGED apart

\* ---- notes (routes/notes.py) ------------------------------------------------
\* what the note handlers leave alone
beside_notes == <<now, rearmed, snoozes, store, scanner, backstage>>

\* POST /api/notes
create_note(u, data) ==
    /\ auth_required(u)
    /\ IF Strip(Get(data.content, <<>>)) = <<>>
           \/ Get(data.color, "yellow") \notin VALID_COLORS
         THEN Api(400) /\ UNCHANGED <<notes, next_note_id>>
         ELSE /\ next_note_id <= MaxNotes
              /\ notes' = Put(notes, next_note_id,
                     [user_id |-> u,
                      content |-> Strip(data.content[1]),
                      color |-> Get(data.color, "yellow"),
                      is_pinned |-> Get(data.is_pinned, FALSE)])
              /\ next_note_id' = next_note_id + 1
              /\ Api(201)
    /\ UNCHANGED beside_notes

\* GET /api/notes/<note_id>
get_note(u, n) ==
    /\ auth_required(u)
    /\ IF ~OwnedNote(u, n) THEN Api(404) ELSE Api(200)
    /\ UNCHANGED <<notes, next_note_id>>
    /\ UNCHANGED beside_notes

\* PUT /api/notes/<note_id>
update_note(u, n, data) ==
    /\ auth_required(u)
    /\ IF ~OwnedNote(u, n)
         THEN Api(404) /\ UNCHANGED notes
         ELSE IF data.color # Absent /\ data.color[1] \notin VALID_COLORS
         THEN Api(400) /\ UNCHANGED notes
         ELSE /\ notes' = [notes EXCEPT ![n] =
                     [user_id |-> @.user_id,
                      content |-> Strip(Get(data.content, @.content)),
                      color |-> Get(data.color, @.color),
                      is_pinned |-> Get(data.is_pinned, @.is_pinned)]]
              /\ Api(200)
    /\ UNCHANGED next_note_id
    /\ UNCHANGED beside_notes

\* PATCH /api/notes/<note_id>/pin
toggle_pin(u, n) ==
    /\ auth_required(u)
    /\ IF ~OwnedNote(u, n)
         THEN Api(404) /\ UNCHANGED notes
         ELSE notes' = [notes EXCEPT ![n].is_pinned = ~@] /\ Api(200)
    /\ UNCHANGED next_note_id
    /\ UNCHANGED beside_notes

\* DELETE /api/notes/<note_id>
delete_note(u, n) ==
    /\ auth_required(u)
    /\ IF ~OwnedNote(u, n)
         THEN Api(404) /\ UNCHANGED notes
         ELSE notes' = Drop(notes, {n}) /\ Api(200)
    /\ UNCHANGED next_note_id
    /\ UNCHANGED beside_notes

\* ---- the clock ------------------------------------------------------------
Tick ==
    /\ now < MaxTime
    /\ now' = now + 1
    /\ quiet_runs' = 0
    /\ UNCHANGED <<rearmed, snoozes>>
    /\ UNCHANGED store
    /\ UNCHANGED client
    /\ UNCHANGED scanner
    /\ UNCHANGED apart

\* ---- channel senders --------------------------------------------------------
\* What a sender's transport can do.  _send_email and _send_sms catch every
\* transport exception and log it; the push branch only logs.
Transport(channel) == IF channel = "push" THEN {"ok"} ELSE {"ok", "failed"}

\* variant: a sender without its try/except
SenderRaises_Uncaught(channel, outcome) == outcome = "failed"

\* _send_email / _send_sms: TRUE when the call raises to _dispatch
SenderRaises(channel, outcome) == FALSE

\* ---- the scanner ------------------------------------------------------------
\* variant: the query without its is_sent filter
DueUnsent_IgnoresSent(t) ==
    {r \in DOMAIN reminders : reminders[r].trigger_at <= t}

\* variant: the query without its trigger_at filter
DueUnsent_IgnoresTime(t) ==
    {r \in DOMAIN reminders : ~reminders[r].is_sent}

\* Reminder.query.filter(trigger_at <= now, is_sent == False).all()
DueUnsent(t) ==
    {r \in DOMAIN reminders : reminders[r].trigger_at <= t /\ ~reminders[r].is_sent}

Snapshot(S) ==
    LET ids == SetToSeq(S)
    IN [i \in 1..Len(ids) |->
          [id |-> ids[i], task_id |-> reminders[ids[i]].task_id,
           trigger_at |-> reminders[ids[i]].trigger_at,
           channel |-> reminders[ids[i]].channel, is_sent |-> FALSE]]

\* reminder.task and task.owner resolve (lazy loads of lines 41-42)
Resolvable(row) ==
    /\ row.task_id \in DOMAIN tasks
    /\ tasks[row.task_id].user_id \in users

\* variant: the session holds a change for every stored reminder
Dirty_AllRows == DOMAIN reminders

\* rows whose is_sent the session has set (line 32) and not yet flushed
Dirty == {due[i].id : i \in 1..(idx - 1)}

check_reminders_start ==
    /\ pc = "idle"
    /\ pc' = "loop"
    /\ scan_now' = now
    /\ due' = Snapshot(DueUnsent(now))
    /\ idx' = 1
    /\ attempts' = <<>>
    /\ result' = "running"
    /\ logged' = -1
    /\ quiet_runs' = IF quiet_runs < 2 THEN quiet_runs + 1 ELSE 2
    /\ UNCHANGED <<now, rearmed, snoozes>>
    /\ UNCHANGED store
    /\ UNCHANGED client
    /\ UNCHANGED apart

\* leaving the app context drops the session and the locals of the invocation
Return ==
    /\ pc' = "idle"
    /\ scan_now' = 0
    /\ due' = <<>>
    /\ idx' = 1

\* the exception leaves check_reminders: nothing is committed, no log line
Raise ==
    /\ Return
    /\ result' = "raised"
    /\ UNCHANGED logged

\* one iteration of the loop: _dispatch(reminder, app); reminder.is_sent = True
dispatch ==
    /\ pc = "loop"
    /\ idx <= Len(due)
    /\ LET row == due[idx]
       IN IF ~Resolvable(row)
            THEN /\ attempts' = Append(attempts, [id |-> row.id, outcome |-> "raised"])
                 /\ Raise
            ELSE \E outcome \in Transport(row.channel) :
                   /\ attempts' = Append(attempts, [id |-> row.id, outcome |-> outcome])
                   /\ IF SenderRaises(row.channel, outcome)
                        THEN Raise
                        ELSE /\ idx' = idx + 1
                             /\ UNCHANGED <<pc, scan_now, due, result, logged>>
    /\ UNCHANGED <<now, quiet_runs, rearmed, snoozes>>
    /\ UNCHANGED store
    /\ UNCHANGED client
    /\ UNCHANGED apart

\* variant: the flush rewrites is_sent of every row of the table
Flush_EveryRow(ids) ==
    [r \in DOMAIN reminders |-> [reminders[r] EXCEPT !.is_sent = (r \in ids)]]

\* the flush of the commit: UPDATE reminders SET is_sent = true WHERE id = ?
\* for every row the session has changed
Flush(ids) ==
    [r \in DOMAIN reminders |->
        IF r \in ids THEN [reminders[r] EXCEPT !.is_sent = TRUE] ELSE reminders[r]]

\* variant: a failed commit keeps the updates that matched a row
RolledBack_Partial == Flush(Dirty)

\* the table after a failed commit: the transaction is rolled back
RolledBack == reminders

\* db.session.commit() and the log line
commit ==
    /\ pc = "loop"
    /\ idx > Len(due)
    /\ IF Dirty \subseteq DOMAIN reminders
         THEN /\ reminders' = Flush(Dirty)
              /\ rearmed' = rearmed \ Dirty
              /\ Return
              /\ result' = "committed"
              /\ logged' = IF Len(due) > 0 THEN Len(due) ELSE -1
         ELSE \* UPDATE matched no row: StaleDataError, transaction rolled back
              Raise /\ reminders' = RolledBack /\ UNCHANGED rearmed
    /\ UNCHANGED <<users, tasks, next_task_id, next_reminder_id>>
    /\ UNCHANGED <<now, attempts, quiet_runs, snoozes>>
    /\ UNCHANGED client
    /\ UNCHANGED apart

Next ==
    \/ register
    \/ \E u \in 1..MaxUsers, data \in PlainTaskInputs : create_task(u, data)
    \/ \E u \in 1..MaxUsers, t \in 1..MaxTasks : delete_task(u, t)
    \/ \E u \in 1..MaxUsers, t \in 1..MaxTasks, at \in TriggerInputs, c \in ChannelInputs :
          add_reminder(u, t, at, c)
    \/ \E u \in 1..MaxUsers, t \in 1..MaxTasks, r \in 1..MaxReminders :
          delete_reminder(u, t, r)
    \/ \E u \in 1..MaxUsers, t \in 1..MaxTasks, r \in 1..MaxReminders, m \in MinuteInputs :
          snooze_reminder(u, t, r, m)
    \/ Tick
    \/ check_reminders_start
    \/ dispatch
    \/ commit

Spec == Init /\ [][Next]_vars

\* ---- the task and note payloads: every body the handlers can receive -------
NextFields ==
    \/ register
    \/ \E u \in 1..MaxUsers, data \in TaskInputs : create_task(u, data)
    \/ \E u \in 1..MaxUsers, t \in 1..MaxTasks, data \in TaskInputs : update_task(u, t, data)
    \/ \E u \in 1..MaxUsers, data \in NoteInputs : create_note(u, data)
    \/ \E u \in 1..MaxUsers, n \in 1..MaxNotes, data \in NoteInputs : update_note(u, n, data)

SpecFields == Init /\ [][NextFields]_vars

\* ---- two tenants: every handler called by either user on every id -----------
\* both users are registered; the caller and the status of each request are recorded
InitApi ==
    /\ users = 1..MaxTenants
    /\ EmptyStore
    /\ now = 0
    /\ ScannerIdle
    /\ DriverIdle
    /\ NoRequest
    /\ observed = TRUE

NextApi ==
    \E u \in 1..MaxTenants :
        \/ \E data \in PlainTaskInputs : create_task(u, data)
        \/ \E t \in 1..MaxTasks : get_task(u, t)
        \/ \E t \in 1..MaxTasks, data \in PlainTaskInputs : update_task(u, t, data)
        \/ \E t \in 1..MaxTasks : complete_task(u, t)
        \/ \E t \in 1..MaxTasks : delete_task(u, t)
        \/ /\ next_reminder_id <= MaxApiReminders
           /\ \E t \in 1..MaxTasks, at \in {<<0>>, Absent}, c \in {"push", "fax"} :
                 add_reminder(u, t, at, c)
        \/ \E t \in 1..MaxTasks : list_reminders(u, t)
        \/ \E t \in 1..MaxTasks, r \in 1..MaxReminders : delete_reminder(u, t, r)
        \/ \E t \in 1..MaxTasks, r \in 1..MaxReminders : snooze_reminder(u, t, r, <<1>>)
        \/ \E data \in PlainNoteInputs : create_note(u, data)
        \/ \E n \in 1..MaxNotes : get_note(u, n)
        \/ \E n \in 1..MaxNotes, data \in PlainNoteInputs : update_note(u, n, data)
        \/ \E n \in 1..MaxNotes : toggle_pin(u, n)
        \/ \E n \in 1..MaxNotes : delete_note(u, n)

SpecApi == InitApi /\ [][NextApi]_vars

\* ---- the scheduling driver (start_scheduler) ---------------------------------
\* BackgroundScheduler runs the job on a thread of its pool each time the
\* interval trigger fires, unless max_instances runs of it are still going;
\* a run that raises is logged by the executor and the job stays scheduled.
Workers == 1..MaxWorkers

Free(raised) == [pc |-> "free", due |-> <<>>, idx |-> 1, raised |-> raised]

Running == {w \in Workers : workers[w].pc = "loop"}

\* variant: a job without a limit on its concurrent runs
CanSubmit_NoLimit == TRUE

\* the executor accepts a run of the job only below max_instances
CanSubmit == instances < MaxInstances

\* variant: a run that raises removes the job
JobAfterError_Dies == FALSE

\* the job after one of its runs has raised: still scheduled
JobAfterError == job_alive

\* what the driver leaves alone
beside_driver ==
    <<users, tasks, next_task_id, next_reminder_id, now, quiet_runs, rearmed, snoozes,
      notes, next_note_id, observed, page_args, page_meta, scanner, client>>

\* the interval trigger fires (every minute): the run starts with lines 24-28
\* on a free thread, or the fire time is skipped
fire ==
    /\ job_alive
    /\ IF CanSubmit /\ Running # Workers
         THEN LET w == CHOOSE x \in Workers \ Running :
                           \A y \in Workers \ Running : x <= y
              IN /\ workers' = [workers EXCEPT ![w] =
                        [pc |-> "loop", due |-> Snapshot(DueUnsent(now)), idx |-> 1,
                         raised |-> @.raised]]
                 /\ instances' = instances + 1
                 /\ UNCHANGED missed
         ELSE /\ missed < MaxMissed
              /\ missed' = missed + 1
              /\ UNCHANGED <<workers, instances>>
    /\ UNCHANGED <<reminders, job_alive>>
    /\ UNCHANGED beside_driver

\* the run on thread w ends by an exception
run_raises(w) ==
    /\ workers' = [workers EXCEPT ![w] = Free(TRUE)]
    /\ instances' = instances - 1
    /\ job_alive' = JobAfterError

\* one iteration of the loop of the run on thread w
run_dispatch(w) ==
    /\ workers[w].pc = "loop"
    /\ workers[w].idx <= Len(workers[w].due)
    /\ LET row == workers[w].due[workers[w].idx]
       IN IF ~Resolvable(row)
            THEN run_raises(w)
            ELSE \E outcome \in Transport(row.channel) :
                   IF SenderRaises(row.channel, outcome)
                     THEN run_raises(w)
                     ELSE /\ workers' = [workers EXCEPT ![w].idx = @ + 1]
                          /\ UNCHANGED <<instances, job_alive>>
    /\ UNCHANGED <<reminders, missed>>
    /\ UNCHANGED beside_driver

\* db.session.commit() of the run on thread w
run_commit(w) ==
    /\ workers[w].pc = "loop"
    /\ workers[w].idx > Len(workers[w].due)
    /\ LET dirty == Ids(workers[w].due)
       IN IF dirty \subseteq DOMAIN reminders
            THEN /\ reminders' = Flush(dirty)
                 /\ workers' = [workers EXCEPT ![w] = Free(@.raised)]
                 /\ instances' = instances - 1
                 /\ UNCHANGED job_alive
            ELSE run_raises(w) /\ reminders' = RolledBack
    /\ UNCHANGED missed
    /\ UNCHANGED beside_driver

\* reminder rows the API can have stored: due or not, on either task
ReminderRows ==
    [task_id : 1..MaxTasks, trigger_at : 0..MaxTime, channel : {"push", "email"},
     is_sent : {FALSE}]

\* one user with MaxTasks tasks and MaxReminders reminders, the scheduler started
InitDriver ==
    /\ users = {1}
    /\ tasks = [t \in 1..MaxTasks |->
                  [user_id |-> 1, title |-> <<"a">>, status |-> "pending",
                   is_recurring |-> FALSE, recurrence_rule |-> None]]
    /\ reminders \in [1..MaxReminders -> ReminderRows]
    /\ next_task_id = MaxTasks + 1
    /\ next_reminder_id = MaxReminders + 1
    /\ notes = <<>>
    /\ next_note_id = 1
    /\ rearmed = {}
    /\ snoozes = 0
    /\ now = 0
    /\ ScannerIdle
    /\ job_alive = TRUE
    /\ instances = 0
    /\ missed = 0
    /\ workers = [w \in Workers |-> Free(FALSE)]
    /\ NoRequest
    /\ observed = FALSE

NextDriver ==
    \/ fire
    \/ \E w \in Workers : run_dispatch(w)
    \/ \E w \in Workers : run_commit(w)
    \/ \E t \in 1..MaxTasks : delete_task(1, t)
    \/ Tick

SpecDriver == InitDriver /\ [][NextDriver]_vars

\* ---- pagination of the list endpoints (utils/helpers.py) ---------------------
MaxPerPageInput == 102
DefaultPage == 1
DefaultPerPage == 20
MaxPerPage == 100

PageInputs == {Absent, <<0>>, <<1>>, <<2>>}
PerPageInputs == {Absent} \cup {<<n>> : n \in (-1)..MaxPerPageInput}

\* request.args.get(key, default, type=int): the default when the key is absent
\* or not an integer
ArgInt(arg, default) == IF arg = Absent THEN default ELSE arg[1]

Min(a, b) == IF a <= b THEN a ELSE b

\* variant: the requested size passed on as it is
Capped_NoCap(n) == n

\* per_page = min(per_page, 100)
Capped(n) == Min(n, MaxPerPage)

\* query.paginate(page=page, per_page=per_page, error_out=False): a page or a
\* size below 1 falls back to 1 and 20; result.page and result.per_page
Pagination(page, per_page) ==
    [page |-> IF page < 1 THEN DefaultPage ELSE page,
     per_page |-> IF per_page < 1 THEN DefaultPerPage ELSE per_page]

\* paginate(query) for the query string page_args
paginate ==
    /\ page_meta = [page |-> 0, per_page |-> 0]
    /\ page_meta' = Pagination(ArgInt(page_args.page, DefaultPage),
                               Capped(ArgInt(page_args.per_page, DefaultPerPage)))
    /\ UNCHANGED <<page_args, now, quiet_runs, rearmed, snoozes, notes, next_note_id,
                   observed, job_alive, instances, missed, workers>>
    /\ UNCHANGED store
    /\ UNCHANGED scanner
    /\ UNCHANGED client

\* a list request with any query string, not yet answered
InitPaginate ==
    /\ users = {}
    /\ EmptyStore
    /\ now = 0
    /\ ScannerIdle
    /\ DriverIdle
    /\ current_user = 0
    /\ response = 0
    /\ observed = FALSE
    /\ page_args \in [page : PageInputs, per_page : PerPageInputs]
    /\ page_meta = [page |-> 0, per_page |-> 0]

NextPaginate == paginate

SpecPaginate == InitPaginate /\ [][NextPaginate]_vars

\* ---- vocabulary of the properties -------------------------------------------
\* the step is a call of _dispatch (it appends one entry to attempts)
Dispatches(r) ==
    /\ Len(attempts') = Len(attempts) + 1
    /\ attempts'[Len(attempts')].id = r

\* the step turns is_sent of stored reminder r from false to true
MarksSent(r) ==
    /\ r \in DOMAIN reminders /\ ~reminders[r].is_sent
    /\ r \in DOMAIN reminders' /\ reminders'[r].is_sent

\* the step turns is_sent of stored reminder r from true to false
Resets(r) ==
    /\ r \in DOMAIN reminders /\ reminders[r].is_sent
    /\ r \in DOMAIN reminders' /\ ~reminders'[r].is_sent

SenderSucceededFor(r) ==
    \E i \in 1..Len(attempts) : attempts[i] = [id |-> r, outcome |-> "ok"]

ReminderIds == 1..MaxReminders

\* C1: a scan marks a reminder sent only if the sender for it succeeded in the
\* same invocation.
C1_SentOnlyAfterSuccess ==
    [][\A r \in ReminderIds : MarksSent(r) => SenderSucceededFor(r)]_vars

\* C2: a failed send does not end the invocation: the loop goes on to the next
\* reminder of the batch (and from there to the commit).
C2_SenderFailureIsolated ==
    [][\A r \in ReminderIds :
          (Dispatches(r) /\ attempts'[Len(attempts')].outcome = "failed")
            => (pc' = "loop" /\ idx' = idx + 1 /\ due' = due /\ result' = "running")]_vars

\* a failed send was followed by the attempt of the next reminder, and the
\* invocation ran to its commit
C2_Witness ==
    /\ result = "committed"
    /\ Len(attempts) = 2
    /\ attempts[1].outcome = "failed"

\* C3: a reminder whose send failed in the (current or last) invocation is not
\* marked sent, so that the next scan selects it again.
C3_FailedStaysUnsent ==
    \A i \in 1..Len(attempts) :
        (attempts[i].outcome = "failed" /\ attempts[i].id \in DOMAIN reminders)
          => ~reminders[attempts[i].id].is_sent

\* C4: when an invocation ends, _dispatch has been called exactly once for
\* each reminder it selected, in order, and for no other reminder.
C4_ExactlyOneDispatch ==
    [][(pc = "loop" /\ pc' = "idle")
         => /\ Len(attempts') = Len(due)
            /\ \A i \in 1..Len(due) : attempts'[i].id = due[i].id]_vars

\* C5: an invocation that begins right after another one, with no API call
\* and no clock tick since that one began, selects nothing.
C5_ScanIdempotent ==
    (quiet_runs = 2 /\ pc = "loop") => due = <<>>

\* the second of two back-to-back invocations is running, and a due reminder
\* that the first one marked sent is in the store
C5_Witness ==
    /\ quiet_runs = 2
    /\ pc = "loop"
    /\ \E r \in DOMAIN reminders :
          reminders[r].is_sent /\ reminders[r].trigger_at <= scan_now

\* C6: snoozing a sent reminder by N minutes leaves it unsent with
\* trigger_at = old trigger_at + N, and _dispatch is called for it afterwards
\* only by an invocation whose now is at or after that trigger_at.
C6_SnoozeRoundTrip ==
    [][/\ \A r \in ReminderIds :
            (r \in DOMAIN reminders /\ reminders[r].is_sent /\ snoozes' # snoozes) =>
              \A u \in 1..MaxUsers, m \in MinuteInputs :
                 (/\ OwnedTask(u, reminders[r].task_id)
                  /\ snooze_reminder(u, reminders[r].task_id, r, m))
                   => /\ r \in DOMAIN reminders'
                      /\ ~reminders'[r].is_sent
                      /\ reminders'[r].trigger_at = reminders[r].trigger_at + Minutes(m)
       /\ \A r \in rearmed :
            Dispatches(r) => scan_now >= reminders[r].trigger_at]_vars

\* the running invocation has called the sender for a reminder that was sent
\* and then snoozed
C6_Witness ==
    /\ pc = "loop"
    /\ \E i \in 1..Len(attempts) :
          attempts[i].id \in rearmed /\ attempts[i].outcome = "ok"

C8_JoinFailureSkipped ==
    [][\A r \in ReminderIds :
          (pc = "loop" /\ idx <= Len(due) /\ ~Resolvable(due[idx]) /\ Dispatches(r))
            => (pc' = "loop" /\ idx' = idx + 1 /\ result' = "running")]_vars

\* C9: is_sent turns true only in the commit that ends an invocation, and
\* then for the whole batch; an invocation that raises leaves the table as it
\* was, and the next invocation can start.
C9_AllOrNothing ==
    /\ [](result = "raised" => ENABLED check_reminders_start)
    /\ [][/\ \A r \in ReminderIds :
               MarksSent(r) =>
                 /\ pc = "loop" /\ idx > Len(due)
                 /\ pc' = "idle" /\ result' = "committed"
                 /\ \A x \in Ids(due) :
                      x \in DOMAIN reminders' /\ reminders'[x].is_sent
          /\ (result = "running" /\ result' = "raised") => reminders' = reminders]_vars

\* an invocation raised after the sender had been called for a reminder, and
\* that reminder is unsent in the store
C9_Witness ==
    /\ result = "raised"
    /\ \E i \in 1..Len(attempts) :
          /\ attempts[i].outcome = "ok"
          /\ attempts[i].id \in DOMAIN reminders
          /\ ~reminders[attempts[i].id].is_sent

\* C10: is_sent of a stored reminder goes from true to false only in a
\* snooze_reminder request for that reminder (so between two snoozes it can
\* go from false to true at most once).
C10_ResetOnlyBySnooze ==
    [][\A r \in ReminderIds :
          Resets(r) => \E u \in 1..MaxUsers, t \in 1..MaxTasks, m \in MinuteInputs :
                          snooze_reminder(u, t, r, m)]_vars

\* one reminder has been re-armed by a snooze while another one stays sent
C10_Witness ==
    /\ rearmed # {}
    /\ \E r \in DOMAIN reminders : reminders[r].is_sent
    /\ result = "committed"

\* the step ends the running invocation of check_reminders
EndsInvocation == pc = "loop" /\ pc' = "idle"

\* rows of the running batch that an API delete has removed from the table
DeletedUnderScan == {i \in 1..Len(due) : due[i].id \notin DOMAIN reminders}

\* C13: when a task or a reminder is deleted while the invocation that
\* selected the reminder is running, the invocation still ends with a commit
\* that marks the rest of its batch (the deleted reminder alone counts as a
\* dispatch error).
C13_DeleteDuringScanClean ==
    [][(EndsInvocation /\ DeletedUnderScan # {})
          => /\ result' = "committed"
             /\ \A i \in 1..Len(due) :
                   due[i].id \in DOMAIN reminders => reminders'[due[i].id].is_sent]_vars

\* number of _dispatch calls of the invocation whose sender reported `o`
Outcomes(o) == Cardinality({i \in 1..Len(attempts) : attempts[i].outcome = o})

\* C14: the log line of an invocation that handled reminders carries the
\* number of reminders whose send succeeded (the number whose send failed
\* being the rest of the batch).
C14_ReportsCounts ==
    (result = "committed" /\ attempts # <<>>) => logged = Outcomes("ok")

\* C18: every stored reminder references a stored task, and the batch a scan
\* selects holds only reminders of stored tasks.
C18_CascadeDelete ==
    /\ [](\A r \in DOMAIN reminders : reminders[r].task_id \in DOMAIN tasks)
    /\ [][(pc = "idle" /\ pc' = "loop")
            => \A i \in 1..Len(due') : due'[i].task_id \in DOMAIN tasks']_vars

\* a task was deleted together with its reminder (a running scan that had
\* selected the reminder failed on it) while another task keeps its reminder
C18_Witness ==
    /\ result = "raised"
    /\ \E i \in 1..Len(attempts) :
          attempts[i].outcome = "raised" /\ attempts[i].id \notin DOMAIN reminders
    /\ reminders # <<>>

\* C19: every successful snooze leaves the reminder's trigger_at strictly
\* later than it was before the call.
C19_SnoozeMovesLater ==
    [][snoozes' # snoozes
         => \A r \in DOMAIN reminders :
              \A u \in users, t \in DOMAIN tasks, m \in MinuteInputs :
                 snooze_reminder(u, t, r, m)
                    => reminders'[r].trigger_at > reminders[r].trigger_at]_vars

\* C20: whatever per_page a list request carries, the page size used and
\* reported in the pagination metadata is at most 100.
C20_PerPageCapped == page_meta.per_page <= MaxPerPage

\* a request for more than 100 rows per page was answered with 100
C20_Witness ==
    /\ page_args.per_page # Absent
    /\ page_args.per_page[1] > MaxPerPage
    /\ page_meta.per_page = MaxPerPage

\* C16: every stored task that is recurring has a recurrence_rule among daily,
\* weekly, monthly, and a stored task has a recurrence_rule only if it is
\* recurring.
C16_RecurrenceConsistent ==
    \A t \in DOMAIN tasks :
        /\ tasks[t].is_recurring => tasks[t].recurrence_rule \in VALID_RECURRENCE
        /\ tasks[t].recurrence_rule # None => tasks[t].is_recurring

\* C17: the content of every stored note is non-empty after trimming.
C17_ContentNonEmpty ==
    \A n \in DOMAIN notes : Strip(notes[n].content) # <<>>

\* the request is answered "not found" and no table has changed
NotFoundClean ==
    /\ response' = 404
    /\ UNCHANGED <<users, tasks, reminders, notes, next_task_id, next_reminder_id,
                   next_note_id>>

\* the owner of a stored reminder
OwnerOf(rows, r) == tasks[rows[r].task_id].user_id

\* the step leaves every row of the users other than u as it was
OthersUnchanged(u) ==
    /\ \A t \in DOMAIN tasks :
          tasks[t].user_id # u => t \in DOMAIN tasks' /\ tasks'[t] = tasks[t]
    /\ \A t \in DOMAIN tasks' : tasks'[t].user_id # u => t \in DOMAIN tasks
    /\ \A r \in DOMAIN reminders :
          OwnerOf(reminders, r) # u => r \in DOMAIN reminders' /\ reminders'[r] = reminders[r]
    /\ \A r \in DOMAIN reminders' :
          r \notin DOMAIN reminders => tasks[reminders'[r].task_id].user_id = u
    /\ \A n \in DOMAIN notes :
          notes[n].user_id # u => n \in DOMAIN notes' /\ notes'[n] = notes[n]
    /\ \A n \in DOMAIN notes' : notes'[n].user_id # u => n \in DOMAIN notes

\* C15: a task, reminder or note request of user u on an id that does not
\* exist or is not u's is answered 404 and changes no table (read the other way
\* round: a step that is not such an answer is no request of u on such an id),
\* and no request of u changes a row of another user.
C15_TenantIsolation ==
    [][\A u \in users :
          current_user' = u =>
             /\ OthersUnchanged(u)
             /\ NotFoundClean
                \/ /\ \A t \in 1..MaxTasks :
                         ~OwnedTask(u, t) =>
                            /\ ~get_task(u, t)
                            /\ ~complete_task(u, t)
                            /\ ~delete_task(u, t)
                            /\ ~list_reminders(u, t)
                            /\ \A data \in PlainTaskInputs : ~update_task(u, t, data)
                            /\ \A at \in TriggerInputs, c \in ChannelInputs :
                                  ~add_reminder(u, t, at, c)
                   /\ \A t \in 1..MaxTasks, r \in 1..MaxReminders :
                         ~(OwnedTask(u, t) /\ ReminderOf(t, r)) =>
                            /\ ~delete_reminder(u, t, r)
                            /\ \A m \in MinuteInputs : ~snooze_reminder(u, t, r, m)
                   /\ \A n \in 1..MaxNotes :
                         ~OwnedNote(u, n) =>
                            /\ ~get_note(u, n)
                            /\ ~toggle_pin(u, n)
                            /\ ~delete_note(u, n)
                            /\ \A data \in PlainNoteInputs : ~update_note(u, n, data)]_vars

\* user 1 was answered "not found" while every stored task and note, and so
\* every reminder, belongs to user 2
C15_Witness ==
    /\ current_user = 1
    /\ response = 404
    /\ tasks # <<>> /\ \A t \in DOMAIN tasks : tasks[t].user_id = 2
    /\ notes # <<>> /\ \A n \in DOMAIN notes : notes[n].user_id = 2
    /\ reminders # <<>>

\* C11: at most one invocation of check_reminders is running at any time, so
\* no reminder is in the batches of two running invocations.
C11_OneInvocationInFlight ==
    /\ Cardinality(Running) <= 1
    /\ instances = Cardinality(Running)
    /\ \A v \in Running, w \in Running :
          v # w => Ids(workers[v].due) \cap Ids(workers[w].due) = {}

\* the interval fired while an invocation was still running, and was skipped
C11_Witness ==
    /\ missed > 0
    /\ \E w \in Running : workers[w].due # <<>>

\* a run of the job has raised
SomeRunRaised == \E w \in Workers : workers[w].raised

\* C12: after a run of check_reminders has raised, the job stays scheduled:
\* the interval can fire again, and a fire that finds no run in flight starts
\* the next invocation.
C12_ScheduleSurvivesFailure ==
    /\ [](SomeRunRaised => job_alive)
    /\ []((SomeRunRaised /\ instances = 0) => ENABLED fire)
    /\ [][(SomeRunRaised /\ instances = 0 /\ fire) => instances' = 1]_vars

\* an invocation is running on a thread on which an earlier run has raised
C12_Witness ==
    \E w \in Running : workers[w].raised

\* a _dispatch call is for a row of the batch loaded at the start of the
\* invocation, due at that time
DispatchFromSnapshot ==
    \A r \in ReminderIds :
        Dispatches(r) => \E i \in 1..Len(due) :
                            due[i].id = r /\ due[i].trigger_at <= scan_now

\* the query of a starting invocation loads every stored reminder that is due
\* and unsent at that time, whenever it was inserted
SelectsAllDue ==
    (pc = "idle" /\ pc' = "loop") => Ids(due') = DueUnsent(now)

\* an ending invocation has called _dispatch for every row of its batch that
\* is still stored
DispatchesAllSelected ==
    EndsInvocation =>
        \A i \in 1..Len(due) :
            due[i].id \in DOMAIN reminders' =>
                \E j \in 1..Len(attempts') : attempts'[j].id = due[i].id

\* C21: an invocation dispatches only reminders of the snapshot taken at its
\* start; a reminder inserted or becoming due later is selected by the next
\* invocation that finds it due and unsent, and dispatched by that invocation.
C21_SnapshotSelection ==
    [][DispatchFromSnapshot /\ SelectsAllDue /\ DispatchesAllSelected]_vars

\* C23: a reminder snoozed while the invocation that selected it is running
\* (its stored trigger_at differs from the one in the batch) is unsent, with
\* the new trigger_at, when that invocation has ended.
C23_SnoozeNotLost ==
    [][EndsInvocation =>
          \A i \in 1..Len(due) :
              (/\ due[i].id \in DOMAIN reminders
               /\ reminders[due[i].id].trigger_at # due[i].trigger_at)
                 => /\ ~reminders'[due[i].id].is_sent
                    /\ reminders'[due[i].id].trigger_at
                          = reminders[due[i].id].trigger_at]_vars

\* a step of check_reminders: the query, one loop iteration, or the commit
ScanStep == pc' # pc \/ idx' # idx

TopKey(rows) ==
    IF DOMAIN rows = {} THEN 0
    ELSE CHOOSE k \in DOMAIN rows : \A j \in DOMAIN rows : j <= k

\* Keys are opaque.  While no invocation holds a loaded row, the keys above the
\* stored rows belong to nothing; handing them out again stands for handing
\* out fresh keys, and lets tasks and reminders be inserted and deleted
\* without end inside the bounds MaxTasks and MaxReminders.
reuse_keys ==
    /\ pc = "idle"
    /\ next_task_id' = TopKey(tasks) + 1
    /\ next_reminder_id' = TopKey(reminders) + 1
    /\ <<next_task_id', next_reminder_id'>> # <<next_task_id, next_reminder_id>>
    /\ UNCHANGED <<users, tasks, reminders>>
    /\ UNCHANGED <<now, quiet_runs, rearmed, snoozes>>
    /\ UNCHANGED scanner
    /\ UNCHANGED client
    /\ UNCHANGED apart

\* one registered user, nothing stored
InitChurn ==
    /\ users = 1..MaxUsers
    /\ EmptyStore
    /\ now = 0
    /\ ScannerIdle
    /\ DriverIdle
    /\ NoRequest
    /\ observed = FALSE

\* the user creates and deletes tasks and adds push reminders that are due at
\* once; the interval job keeps running check_reminders
NextChurn ==
    \/ \E u \in 1..MaxUsers, data \in PlainTaskInputs : create_task(u, data)
    \/ \E u \in 1..MaxUsers, t \in 1..MaxTasks : delete_task(u, t)
    \/ \E u \in 1..MaxUsers, t \in 1..MaxTasks : add_reminder(u, t, <<0>>, "push")
    \/ reuse_keys
    \/ check_reminders_start
    \/ dispatch
    \/ commit

\* the interval trigger fires every minute and a started invocation runs on:
\* each step of check_reminders that stays possible is taken
SpecChurn ==
    /\ InitChurn
    /\ [][NextChurn]_vars
    /\ WF_vars(check_reminders_start)
    /\ WF_vars(dispatch)
    /\ WF_vars(commit)

\* reminder r is stored, due and unsent, and its task and user resolve
Pending(r) ==
    /\ r \in DOMAIN reminders
    /\ reminders[r].trigger_at <= now
    /\ ~reminders[r].is_sent
    /\ Resolvable([task_id |-> reminders[r].task_id])

\* C24: under a scheduler that keeps running check_reminders, a reminder that
\* is due, unsent and resolvable is eventually marked sent, unless it is
\* deleted or moved into the future first, whatever else is in its batches.
C24_NoStarvation ==
    \A r \in ReminderIds :
        Pending(r) ~> (\/ r \notin DOMAIN reminders
                       \/ reminders[r].is_sent
                       \/ reminders[r].trigger_at > now)
====
